---- MODULE Spec2Model ----
(***************************************************************************)
(* A model of the tennis game domain object                                *)
(* (src/domain/model/TennisGame.ts): the two raw point counters, the two  *)
(* player names, and the methods pointTo, getScore, getState, reset and   *)
(* getRawPoints, each one action.  The last call, what it returned and    *)
(* what it threw are kept in the state so that properties can speak of    *)
(* the outcome of a call.                                                  *)
(*                                                                         *)
(* The callers of the game are modelled after it: a caller that awards    *)
(* consecutive points to one player (src/tests/TennisGame.spec.ts),       *)
(* callbacks queued on the event loop against one game, the console       *)
(* (src/apps/console/gameConsole.ts) and the useTennisGame hook           *)
(* (src/unnamed/part_001).  Each has its own specification; in the        *)
(* others its variables keep their initial value.                         *)
(***************************************************************************)
EXTENDS Integers, Sequences, FiniteSets, TLC

VARIABLES
    p1,           \* TennisGame.p1, raw point counter of player 1
    p2,           \* TennisGame.p2, raw point counter of player 2
    player1Name,  \* TennisGame.player1Name
    player2Name,  \* TennisGame.player2Name
    call,         \* the last method called on the game, with its argument
    ret,          \* the value the last call returned (UNDEFINED for void)
    thrown,       \* the Error message the last call threw, or NULL
    streak,       \* the run of consecutive points a caller is awarding
    pending,      \* per caller, the pointTo callback queued on the event loop
    ran,          \* the callback the event loop ran last
    rl,           \* TennisConsole.rl: the state of the readline interface
    printed,      \* the lines logged since the console was last cleared
    score         \* the `score` state of the useTennisGame hook

\* The variables of the game object and of the last call on it.
gameVars == <<p1, p2, player1Name, player2Name, call, ret, thrown>>

\* The variables of the callers of the game.
appVars == <<streak, pending, ran, rl, printed, score>>

vars == <<p1, p2, player1Name, player2Name, call, ret, thrown,
          streak, pending, ran, rl, printed, score>>

----------------------------------------------------------------------------
(* Bounds of the model *)

\* A caller awarding consecutive points to one player makes at most MaxCalls
\* calls in one run.
MaxCalls == 6

\* The number of callers that queue pointTo callbacks against one game.
NumCallers == 2

\* pointTo is explored while the counter it increments is below MaxPoints
\* (a deuce/advantage rally can go on for ever).
MaxPoints == 6

----------------------------------------------------------------------------
(* JavaScript values *)

\* The value null.
NULL == [isNull |-> TRUE]

\* A string value held in a slot of type `string | null`.
JsString(s) == [isNull |-> FALSE, str |-> s]

\* JavaScript truthiness of a `string | null` value, as tested by `if (v)`:
\* null and the empty string are falsy, every other string is truthy.
Truthy(v) == ~v.isNull /\ v.str # ""

\* What a void method returns.
UNDEFINED == [type |-> "undefined"]

\* Math.min, Math.max, Math.abs
Min(a, b) == IF a <= b THEN a ELSE b
Max(a, b) == IF a >= b THEN a ELSE b
Abs(a) == IF a >= 0 THEN a ELSE 0 - a

----------------------------------------------------------------------------
(* Constants of the program *)

\* const SCORE_LABELS = ["love", "15", "30", "40"]; a 0-based index i of the
\* source is the 1-based index i + 1 here.
SCORE_LABELS == <<"love", "15", "30", "40">>

\* The separator of a progress label, U+2013 EN DASH in the source, written
\* with the ASCII hyphen here.
EN_DASH == "-"

\* The message of the Error pointTo throws.
GameWonMessage == "Game has already been won"

\* The type Player = 1 | 2.
Player == {1, 2}

\* The callers of the game that are not part of a specification do not
\* exist in it: no run of points, no queued callback, no console, no hook.
NoStreak == [player |-> 0]
NoCallback == [player |-> 0]
NoCallers == <<>>

AppIdle ==
    /\ streak = NoStreak
    /\ pending = NoCallers
    /\ ran = NoCallback
    /\ rl = UNDEFINED
    /\ printed = <<>>
    /\ score = UNDEFINED

\* The names a game is constructed with: any strings; the callers of the
\* repository pass "P1" and "P2", and the empty string is a string too.
Names == {"", "P1", "P2"}

----------------------------------------------------------------------------
(* The private methods *)

\* getWinner() without the minimum of four points: a lead of two wins.
getWinner_NoMinimum ==
    LET diff == Abs(p1 - p2)
    IN  IF diff >= 2
        THEN JsString(IF p1 > p2 THEN player1Name ELSE player2Name)
        ELSE NULL

\* getWinner(): the winning player's name, or null
getWinner ==
    LET max == Max(p1, p2)
        diff == Abs(p1 - p2)
    IN  IF max >= 4 /\ diff >= 2
        THEN JsString(IF p1 > p2 THEN player1Name ELSE player2Name)
        ELSE NULL

\* hasWinner(): getWinner() !== null
hasWinner == getWinner # NULL

----------------------------------------------------------------------------
(* The pure methods *)

\* getState() with the deuce/advantage gate at "> 3" instead of ">= 3".
getState_GateAbove3 ==
    LET winner == getWinner
        label1 == SCORE_LABELS[Min(p1, 3) + 1]
        label2 == SCORE_LABELS[Min(p2, 3) + 1]
    IN  IF Truthy(winner)
        THEN [type |-> "won", player |-> winner.str]
        ELSE IF p1 > 3 /\ p2 > 3 /\ p1 = p2
        THEN [type |-> "deuce"]
        ELSE IF p1 > 3 /\ p2 > 3 /\ p1 = p2 + 1
        THEN [type |-> "advantage", player |-> player1Name]
        ELSE IF p1 > 3 /\ p2 > 3 /\ p2 = p1 + 1
        THEN [type |-> "advantage", player |-> player2Name]
        ELSE [type |-> "progress", scoreLabel |-> label1 \o EN_DASH \o label2]

\* getState() with the two advantage branches naming the wrong player.
getState_AdvantageSwapped ==
    LET winner == getWinner
        label1 == SCORE_LABELS[Min(p1, 3) + 1]
        label2 == SCORE_LABELS[Min(p2, 3) + 1]
    IN  IF Truthy(winner)
        THEN [type |-> "won", player |-> winner.str]
        ELSE IF p1 >= 3 /\ p2 >= 3 /\ p1 = p2
        THEN [type |-> "deuce"]
        ELSE IF p1 >= 3 /\ p2 >= 3 /\ p1 = p2 + 1
        THEN [type |-> "advantage", player |-> player2Name]
        ELSE IF p1 >= 3 /\ p2 >= 3 /\ p2 = p1 + 1
        THEN [type |-> "advantage", player |-> player1Name]
        ELSE [type |-> "progress", scoreLabel |-> label1 \o EN_DASH \o label2]

\* getState() with the two labels of a progress score in the wrong order.
getState_LabelsSwapped ==
    LET winner == getWinner
        label1 == SCORE_LABELS[Min(p1, 3) + 1]
        label2 == SCORE_LABELS[Min(p2, 3) + 1]
    IN  IF Truthy(winner)
        THEN [type |-> "won", player |-> winner.str]
        ELSE IF p1 >= 3 /\ p2 >= 3 /\ p1 = p2
        THEN [type |-> "deuce"]
        ELSE IF p1 >= 3 /\ p2 >= 3 /\ p1 = p2 + 1
        THEN [type |-> "advantage", player |-> player1Name]
        ELSE IF p1 >= 3 /\ p2 >= 3 /\ p2 = p1 + 1
        THEN [type |-> "advantage", player |-> player2Name]
        ELSE [type |-> "progress", scoreLabel |-> label2 \o EN_DASH \o label1]

\* getState(): the canonical GameState
getState ==
    LET winner == getWinner
        label1 == SCORE_LABELS[Min(p1, 3) + 1]
        label2 == SCORE_LABELS[Min(p2, 3) + 1]
    IN  IF Truthy(winner)
        THEN [type |-> "won", player |-> winner.str]
        ELSE IF p1 >= 3 /\ p2 >= 3 /\ p1 = p2
        THEN [type |-> "deuce"]
        ELSE IF p1 >= 3 /\ p2 >= 3 /\ p1 = p2 + 1
        THEN [type |-> "advantage", player |-> player1Name]
        ELSE IF p1 >= 3 /\ p2 >= 3 /\ p2 = p1 + 1
        THEN [type |-> "advantage", player |-> player2Name]
        ELSE [type |-> "progress", scoreLabel |-> label1 \o EN_DASH \o label2]

\* getScore() with the wording of the console ("DEUCE!", "<name> wins!").
getScore_Shouting ==
    LET state == getState
    IN  CASE state.type = "deuce" -> "DEUCE!"
          [] state.type = "advantage" -> "Advantage " \o state.player
          [] state.type = "won" -> state.player \o " wins!"
          [] state.type = "progress" -> state.scoreLabel

\* getScore(): the state rendered as a string
getScore ==
    LET state == getState
    IN  CASE state.type = "deuce" -> "Deuce"
          [] state.type = "advantage" -> "Advantage " \o state.player
          [] state.type = "won" -> state.player \o " wins"
          [] state.type = "progress" -> state.scoreLabel

\* getRawPoints(): { p1, p2 }
getRawPoints == [p1 |-> p1, p2 |-> p2]

----------------------------------------------------------------------------
(* The state after construction *)

\* new TennisGame(player1Name, player2Name): both counters 0
Init ==
    /\ p1 = 0
    /\ p2 = 0
    /\ player1Name \in Names
    /\ player2Name \in Names
    /\ call = [op |-> "new"]
    /\ ret = UNDEFINED
    /\ thrown = NULL
    /\ AppIdle

----------------------------------------------------------------------------
(* The methods as actions *)

\* pointTo(player) without the check for a winner.
PointTo_Unchecked(player) ==
    /\ call' = [op |-> "pointTo", player |-> player]
    /\ ret' = UNDEFINED
    /\ (IF player = 1 THEN p1 ELSE p2) < MaxPoints
    /\ thrown' = NULL
    /\ IF player = 1
       THEN p1' = p1 + 1 /\ p2' = p2
       ELSE p2' = p2 + 1 /\ p1' = p1
    /\ UNCHANGED <<player1Name, player2Name>>

\* pointTo(player) with `this.p2--` for player 2.
PointTo_DecrementsP2(player) ==
    /\ call' = [op |-> "pointTo", player |-> player]
    /\ ret' = UNDEFINED
    /\ IF hasWinner
       THEN /\ thrown' = JsString(GameWonMessage)
            /\ UNCHANGED <<p1, p2>>
       ELSE /\ (IF player = 1 THEN p1 ELSE p2) < MaxPoints
            /\ thrown' = NULL
            /\ IF player = 1
               THEN p1' = p1 + 1 /\ p2' = p2
               ELSE p2' = p2 - 1 /\ p1' = p1
    /\ UNCHANGED <<player1Name, player2Name>>

\* pointTo(player): throws when the game has a winner, else increments the
\* counter of the player.
PointTo(player) ==
    /\ call' = [op |-> "pointTo", player |-> player]
    /\ ret' = UNDEFINED
    /\ IF hasWinner
       THEN /\ thrown' = JsString(GameWonMessage)
            /\ UNCHANGED <<p1, p2>>
       ELSE /\ (IF player = 1 THEN p1 ELSE p2) < MaxPoints
            /\ thrown' = NULL
            /\ IF player = 1
               THEN p1' = p1 + 1 /\ p2' = p2
               ELSE p2' = p2 + 1 /\ p1' = p1
    /\ UNCHANGED <<player1Name, player2Name>>

\* getScore()
GetScore ==
    /\ call' = [op |-> "getScore"]
    /\ ret' = getScore
    /\ thrown' = NULL
    /\ UNCHANGED <<p1, p2, player1Name, player2Name>>

\* getState() that throws once the game is won, like pointTo.
GetState_ThrowsWhenWon ==
    /\ call' = [op |-> "getState"]
    /\ IF hasWinner
       THEN ret' = UNDEFINED /\ thrown' = JsString(GameWonMessage)
       ELSE ret' = getState /\ thrown' = NULL
    /\ UNCHANGED <<p1, p2, player1Name, player2Name>>

\* getState()
GetState ==
    /\ call' = [op |-> "getState"]
    /\ ret' = getState
    /\ thrown' = NULL
    /\ UNCHANGED <<p1, p2, player1Name, player2Name>>

\* reset() that forgets the counter of player 2.
Reset_OnlyP1 ==
    /\ call' = [op |-> "reset"]
    /\ ret' = UNDEFINED
    /\ thrown' = NULL
    /\ p1' = 0
    /\ UNCHANGED <<p2, player1Name, player2Name>>

\* reset()
Reset ==
    /\ call' = [op |-> "reset"]
    /\ ret' = UNDEFINED
    /\ thrown' = NULL
    /\ p1' = 0
    /\ p2' = 0
    /\ UNCHANGED <<player1Name, player2Name>>

\* getRawPoints()
GetRawPoints ==
    /\ call' = [op |-> "getRawPoints"]
    /\ ret' = getRawPoints
    /\ thrown' = NULL
    /\ UNCHANGED <<p1, p2, player1Name, player2Name>>

PointToAny == \E player \in Player : PointTo(player)

Next ==
    \/ PointToAny /\ UNCHANGED appVars
    \/ GetScore /\ UNCHANGED appVars
    \/ GetState /\ UNCHANGED appVars
    \/ Reset /\ UNCHANGED appVars
    \/ GetRawPoints /\ UNCHANGED appVars

Spec == Init /\ [][Next]_vars

----------------------------------------------------------------------------
(* The pure methods over every pair of counters: the game starts with any *)
(* two counters up to MaxPoints and only the reading methods are called.  *)

InitFn ==
    /\ p1 \in 0..MaxPoints
    /\ p2 \in 0..MaxPoints
    /\ player1Name \in Names
    /\ player2Name \in Names
    /\ call = [op |-> "new"]
    /\ ret = UNDEFINED
    /\ thrown = NULL
    /\ AppIdle

NextFn ==
    \/ GetScore /\ UNCHANGED appVars
    \/ GetState /\ UNCHANGED appVars
    \/ GetRawPoints /\ UNCHANGED appVars

SpecFn == InitFn /\ [][NextFn]_vars

----------------------------------------------------------------------------
(* A caller that awards consecutive points to one player, as the loop     *)
(* `for (let i = 0; i < 4; i++) game.pointTo(1)` of the tests does, from  *)
(* any state of a game and going on after the win.                        *)

\* The variables of the other callers.
notStreakVars == <<pending, ran, rl, printed, score>>

\* The caller starts a run of points to `player`.  A run is explored when
\* the points that win the game for the player fit below MaxPoints.
StartStreak(player) ==
    /\ streak = NoStreak
    /\ Max(4, (IF player = 1 THEN p2 ELSE p1) + 2) <= MaxPoints
    /\ streak' = [player |-> player, from |-> <<p1, p2>>, calls |-> 0]
    /\ UNCHANGED gameVars
    /\ UNCHANGED notStreakVars

\* The next call of the run: pointTo for the same player.
StreakPoint ==
    /\ streak # NoStreak
    /\ streak.calls < MaxCalls
    /\ PointTo(streak.player)
    /\ streak' = [streak EXCEPT !.calls = @ + 1]
    /\ UNCHANGED notStreakVars

\* The caller stops the run.
EndStreak ==
    /\ streak # NoStreak
    /\ streak' = NoStreak
    /\ UNCHANGED gameVars
    /\ UNCHANGED notStreakVars

NextStreak ==
    \/ streak = NoStreak /\ PointToAny /\ UNCHANGED appVars
    \/ streak = NoStreak /\ Reset /\ UNCHANGED appVars
    \/ \E player \in Player : StartStreak(player)
    \/ StreakPoint
    \/ EndStreak

SpecStreak == Init /\ [][NextStreak]_vars

----------------------------------------------------------------------------
(* Several callers of one game.  A caller's call of pointTo is a callback *)
(* (the answer callback of rl.question in the console, the pointTo        *)
(* callback of the hook) that an input event queues on the event loop and *)
(* that the event loop later runs, one callback at a time and each to its *)
(* end: pointTo contains no await, so nothing runs between its check and  *)
(* its increment.  The callbacks run in any order.                        *)

Callers == 1..NumCallers

\* The variables of the other callers.
notCallerVars == <<streak, rl, printed, score>>

InitCallers ==
    /\ p1 = 0
    /\ p2 = 0
    /\ player1Name \in Names
    /\ player2Name \in Names
    /\ call = [op |-> "new"]
    /\ ret = UNDEFINED
    /\ thrown = NULL
    /\ streak = NoStreak
    /\ pending = [c \in Callers |-> NoCallback]
    /\ ran = NoCallback
    /\ rl = UNDEFINED
    /\ printed = <<>>
    /\ score = UNDEFINED

\* An input event of caller c queues its callback, which will call
\* pointTo(player); issuedWon records whether the game had a winner then.
Issue(c, player) ==
    /\ pending[c] = NoCallback
    /\ pending' = [pending EXCEPT ![c] =
                      [player |-> player, issuedWon |-> hasWinner]]
    /\ UNCHANGED <<gameVars, ran>>
    /\ UNCHANGED notCallerVars

\* The callback of caller c with the check for a winner made when the
\* callback was queued and the increment made when it runs.
Run_StaleCheck(c) ==
    /\ pending[c] # NoCallback
    /\ call' = [op |-> "pointTo", player |-> pending[c].player]
    /\ ret' = UNDEFINED
    /\ IF pending[c].issuedWon
       THEN /\ thrown' = JsString(GameWonMessage)
            /\ UNCHANGED <<p1, p2>>
       ELSE /\ (IF pending[c].player = 1 THEN p1 ELSE p2) < MaxPoints
            /\ thrown' = NULL
            /\ IF pending[c].player = 1
               THEN p1' = p1 + 1 /\ p2' = p2
               ELSE p2' = p2 + 1 /\ p1' = p1
    /\ UNCHANGED <<player1Name, player2Name>>
    /\ ran' = pending[c]
    /\ pending' = [pending EXCEPT ![c] = NoCallback]
    /\ UNCHANGED notCallerVars

\* The event loop runs the callback of caller c: the whole of pointTo.
Run(c) ==
    /\ pending[c] # NoCallback
    /\ PointTo(pending[c].player)
    /\ ran' = pending[c]
    /\ pending' = [pending EXCEPT ![c] = NoCallback]
    /\ UNCHANGED notCallerVars

NextCallers ==
    \/ \E c \in Callers, player \in Player : Issue(c, player)
    \/ \E c \in Callers : Run(c)

SpecCallers == InitCallers /\ [][NextCallers]_vars

----------------------------------------------------------------------------
(* JavaScript strings and numbers, as the console uses them *)

\* String.prototype.includes: sub occurs in s (case-sensitively).
Includes(s, sub) ==
    \E i \in 1..(Len(s) - Len(sub) + 1) : SubSeq(s, i, i + Len(sub) - 1) = sub

UpperCaseLetters == "ABCDEFGHIJKLMNOPQRSTUVWXYZ"
LowerCaseLetters == "abcdefghijklmnopqrstuvwxyz"

\* A character in lower case.
LowerOf(ch) ==
    LET at == {i \in 1..26 : SubSeq(UpperCaseLetters, i, i) = ch}
    IN  IF at = {} THEN ch
        ELSE LET i == CHOOSE i \in at : TRUE
             IN  SubSeq(LowerCaseLetters, i, i)

\* String.prototype.toLowerCase
RECURSIVE ToLowerCase(_)
ToLowerCase(s) ==
    IF Len(s) = 0 THEN ""
    ELSE LowerOf(SubSeq(s, 1, 1)) \o ToLowerCase(SubSeq(s, 2, Len(s)))

\* The number NaN, and a number that is an integer.
NaN == [isNaN |-> TRUE]
JsNumber(n) == [isNaN |-> FALSE, num |-> n]

\* v === n for an integer n: NaN equals nothing.
StrictEquals(v, n) == ~v.isNaN /\ v.num = n

\* The white space parseInt skips.
WhiteSpace == {" ", "\t", "\n", "\r"}

\* s without its leading white space.
RECURSIVE TrimStart(_)
TrimStart(s) ==
    IF Len(s) > 0 /\ SubSeq(s, 1, 1) \in WhiteSpace
    THEN TrimStart(SubSeq(s, 2, Len(s)))
    ELSE s

DecimalDigits == "0123456789"

\* The value of a decimal digit, or -1 for any other character.
DigitValue(ch) ==
    LET at == {i \in 1..10 : SubSeq(DecimalDigits, i, i) = ch}
    IN  IF at = {} THEN -1 ELSE (CHOOSE i \in at : TRUE) - 1

\* The number the longest prefix of decimal digits of s spells after acc;
\* any says whether a digit has been read.
RECURSIVE ParseDigits(_, _, _)
ParseDigits(s, acc, any) ==
    IF Len(s) > 0 /\ DigitValue(SubSeq(s, 1, 1)) >= 0
    THEN ParseDigits(SubSeq(s, 2, Len(s)),
                     10 * acc + DigitValue(SubSeq(s, 1, 1)), TRUE)
    ELSE IF any THEN JsNumber(acc) ELSE NaN

\* parseInt(s) for the decimal case: leading white space is skipped, a sign
\* is accepted, the longest prefix of digits is read and what follows it is
\* ignored; NaN when there is no digit.
ParseInt(s) ==
    LET t == TrimStart(s)
        sign == IF Len(t) > 0 THEN SubSeq(t, 1, 1) ELSE ""
        body == IF sign \in {"+", "-"} THEN SubSeq(t, 2, Len(t)) ELSE t
        magnitude == ParseDigits(body, 0, FALSE)
    IN  IF magnitude.isNaN THEN NaN
        ELSE IF sign = "-" THEN JsNumber(0 - magnitude.num)
        ELSE magnitude

----------------------------------------------------------------------------
(* The console, src/apps/console/gameConsole.ts.  The emoji of the DISPLAY *)
(* strings are left out.  In the console's specification call and thrown   *)
(* record the last pointTo the console made.                               *)

DISPLAY ==
    [BORDER |-> "--------------------------------",
     TITLE |-> "Tennis Game Score",
     STAR |-> "*",
     SPACE |-> "  ",
     PLAYERS |-> [P1 |-> "Player 1", P2 |-> "Player 2"],
     STATES |-> [DEUCE |-> "DEUCE! The tension builds!",
                 ADVANTAGE |-> "Advantage! Next point could win!",
                 GAME_OVER |-> "Game Over!",
                 QUIT |-> "Thanks for playing!"]]

\* What the user may type at the prompt.
Answers == {"1", "2", "q", "Q", "", "x", "3", "12", "1x", " 2", "+1"}

\* The variables of the other callers.
notConsoleVars == <<streak, pending, ran, score>>

\* showWelcome(): the lines it logs after console.clear()
ShowWelcome ==
    << "\n\n" \o DISPLAY.TITLE,
       DISPLAY.BORDER,
       "Current score: " \o getScore,
       "\nGame Instructions:",
       "Enter 1 for " \o DISPLAY.PLAYERS.P1,
       "Enter 2 for " \o DISPLAY.PLAYERS.P2,
       "Enter q to quit",
       DISPLAY.BORDER \o "\n" >>

\* showScore(activePlayer): the lines it logs after console.clear();
\* activePlayer is 0 when the argument is left out.
ShowScore(activePlayer) ==
    LET points == getRawPoints
        current == getScore
        head == << "\n" \o DISPLAY.TITLE,
                   DISPLAY.BORDER,
                   (IF activePlayer = 1 THEN DISPLAY.STAR ELSE DISPLAY.SPACE)
                       \o " " \o DISPLAY.PLAYERS.P1 \o " --- "
                       \o ToString(points.p1),
                   (IF activePlayer = 2 THEN DISPLAY.STAR ELSE DISPLAY.SPACE)
                       \o " " \o DISPLAY.PLAYERS.P2 \o " --- "
                       \o ToString(points.p2),
                   DISPLAY.BORDER >>
    IN  IF Includes(current, "wins")
        THEN head \o << "\n" \o DISPLAY.STATES.GAME_OVER,
                        "Final Score: " \o current,
                        "\n" >>
        ELSE head \o << "Current score: " \o current >>
                  \o (IF Includes(current, "DEUCE")
                      THEN << DISPLAY.STATES.DEUCE >>
                      ELSE IF Includes(current, "Advantage")
                      THEN << DISPLAY.STATES.ADVANTAGE >>
                      ELSE << >>)

\* new TennisConsole(): the readline interface is created and the game is
\* new TennisGame(DISPLAY.PLAYERS.P1, DISPLAY.PLAYERS.P2).
InitConsole ==
    /\ p1 = 0
    /\ p2 = 0
    /\ player1Name = DISPLAY.PLAYERS.P1
    /\ player2Name = DISPLAY.PLAYERS.P2
    /\ call = [op |-> "new"]
    /\ ret = UNDEFINED
    /\ thrown = NULL
    /\ streak = NoStreak
    /\ pending = NoCallers
    /\ ran = NoCallback
    /\ rl = "created"
    /\ printed = <<>>
    /\ score = UNDEFINED

\* promptPlayer(), called at the end of a handler that has logged `logged`
\* and left the game in the primed state: when the score is a win it shows
\* the score and closes the interface, else it asks the question.
PromptPlayer(logged) ==
    IF Includes(getScore', "wins")
    THEN /\ printed' = ShowScore(0)'
         /\ rl' = "closed"
    ELSE /\ printed' = logged
         /\ rl' = "question"

\* start(): showWelcome() and promptPlayer()
Start ==
    /\ rl = "created"
    /\ UNCHANGED gameVars
    /\ PromptPlayer(ShowWelcome)
    /\ UNCHANGED notConsoleVars

\* The callback of rl.question, with the answer the user typed, to its end
\* (the call of promptPlayer() included).
Answer(answer) ==
    /\ rl = "question"
    /\ IF ToLowerCase(answer) = "q"
       THEN /\ printed' = << "\n", DISPLAY.STATES.QUIT, "\n" >>
            /\ rl' = "closed"
            /\ UNCHANGED gameVars
       ELSE LET player == ParseInt(answer)
            IN  IF StrictEquals(player, 1) \/ StrictEquals(player, 2)
                THEN /\ PointTo(player.num)
                     /\ PromptPlayer(IF thrown' = NULL
                                     THEN ShowScore(player.num)'
                                     ELSE << "Error: " \o thrown'.str >>)
                ELSE /\ UNCHANGED gameVars
                     /\ PromptPlayer(
                            << "Invalid input. Please enter 1 or 2." >>)
    /\ UNCHANGED notConsoleVars

NextConsole ==
    \/ Start
    \/ \E answer \in Answers : Answer(answer)

SpecConsole == InitConsole /\ [][NextConsole]_vars

----------------------------------------------------------------------------
(* The useTennisGame hook: it keeps one TennisGame and the score string   *)
(* of its last setScore call in React state.  Each callback runs to its   *)
(* end; the component then renders the score the state holds.             *)

\* The variables of the other callers.
notHookVars == <<streak, pending, ran, rl, printed>>

\* The first render: useState(() => new TennisGame(player1, player2)) and
\* useState(game.getScore())
InitHook ==
    /\ p1 = 0
    /\ p2 = 0
    /\ player1Name \in Names
    /\ player2Name \in Names
    /\ call = [op |-> "new"]
    /\ ret = UNDEFINED
    /\ thrown = NULL
    /\ streak = NoStreak
    /\ pending = NoCallers
    /\ ran = NoCallback
    /\ rl = UNDEFINED
    /\ printed = <<>>
    /\ score = getScore

\* A pointTo callback that calls setScore before game.pointTo.
HookPointTo_ScoreBeforePoint(p) ==
    /\ PointTo(p)
    /\ score' = getScore
    /\ UNCHANGED notHookVars

\* The pointTo callback of the hook: game.pointTo(p), then
\* setScore(game.getScore()), which a throwing pointTo does not reach.
HookPointTo(p) ==
    /\ PointTo(p)
    /\ score' = IF thrown' = NULL THEN getScore' ELSE score
    /\ UNCHANGED notHookVars

\* The reset callback of the hook: game.reset(), setScore(game.getScore())
HookReset ==
    /\ Reset
    /\ score' = getScore'
    /\ UNCHANGED notHookVars

\* The getRawPoints function of the hook
HookGetRawPoints ==
    /\ GetRawPoints
    /\ UNCHANGED score
    /\ UNCHANGED notHookVars

NextHook ==
    \/ \E p \in Player : HookPointTo(p)
    \/ HookReset
    \/ HookGetRawPoints

SpecHook == InitHook /\ [][NextHook]_vars

----------------------------------------------------------------------------
(* The properties *)

\* The Won condition of the scoring rule, on the counters: a player has at
\* least 4 points and leads by at least 2.
WonCond == Max(p1, p2) >= 4 /\ Abs(p1 - p2) >= 2

\* Both counters are in deuce/advantage territory.
BothAtLeast3 == p1 >= 3 /\ p2 >= 3

\* The name of the player with the higher counter.
LeaderName == IF p1 > p2 THEN player1Name ELSE player2Name

\* The label of a point count, written out.
LabelOf(n) ==
    CASE n = 0 -> "love"
      [] n = 1 -> "15"
      [] n = 2 -> "30"
      [] OTHER -> "40"

C2_WonIffWinByTwo ==
    /\ getState.type = "won" <=> WonCond
    /\ getState.type = "won" => getState.player = LeaderName

\* C3 as stated: in every state reachable through pointTo exactly one of the four
\* defining conditions holds, and getState returns the variant whose
\* condition holds.
C3_ExactlyOneVariant ==
    LET conds == [won |-> WonCond,
                  deuce |-> ~WonCond /\ BothAtLeast3 /\ p1 = p2,
                  advantage |-> ~WonCond /\ BothAtLeast3 /\ Abs(p1 - p2) = 1,
                  progress |-> ~WonCond /\ ~BothAtLeast3]
    IN  /\ Cardinality({v \in DOMAIN conds : conds[v]}) = 1
        /\ conds[getState.type]

\* C4: getState returns deuce if and only if the game is not won, both
\* counters are at least 3 and the counters are equal.
C4_DeuceIff ==
    getState.type = "deuce" <=> (~WonCond /\ BothAtLeast3 /\ p1 = p2)

\* C4 witness: getState has returned deuce at a tie later than 3-3.
C4_Witness ==
    /\ call.op = "getState"
    /\ ret = [type |-> "deuce"]
    /\ p1 = 5
    /\ p2 = 5

\* C5: getState returns advantage if and only if the game is not won, both
\* counters are at least 3 and they differ by exactly 1; the advantage names
\* player 1 when p1 = p2 + 1 and player 2 when p2 = p1 + 1.
C5_AdvantageIff ==
    /\ getState.type = "advantage"
          <=> (~WonCond /\ BothAtLeast3 /\ Abs(p1 - p2) = 1)
    /\ getState.type = "advantage" =>
          /\ p1 = p2 + 1 => getState.player = player1Name
          /\ p2 = p1 + 1 => getState.player = player2Name

\* C5 witness: getState has returned advantage for player 2, whose name
\* differs from player 1's.
C5_Witness ==
    /\ call.op = "getState"
    /\ ret = [type |-> "advantage", player |-> "P2"]
    /\ player1Name = "P1"
    /\ p1 = 3
    /\ p2 = 4

\* C6: when the game is neither won nor in deuce/advantage territory,
\* getState returns progress with the label of player 1, the dash, the label
\* of player 2, each label that of min(points, 3); a new game renders
\* love-love and two points to player 1 and one to player 2 render 30-15.
C6_ProgressLabel ==
    /\ (~WonCond /\ ~BothAtLeast3) =>
          getState = [type |-> "progress",
                      scoreLabel |-> LabelOf(Min(p1, 3)) \o EN_DASH
                                        \o LabelOf(Min(p2, 3))]
    /\ getState.type = "progress" =>
          getState.scoreLabel = LabelOf(Min(p1, 3)) \o EN_DASH
                                   \o LabelOf(Min(p2, 3))
    /\ (p1 = 0 /\ p2 = 0) => getScore = "love-love"
    /\ (p1 = 2 /\ p2 = 1) => getScore = "30-15"

\* C6 witness: getScore has returned 30-15 with two points for player 1 and
\* one for player 2.
C6_Witness ==
    /\ call.op = "getScore"
    /\ ret = "30-15"
    /\ p1 = 2
    /\ p2 = 1

\* C7: getScore is a projection of getState: it is "Deuce" exactly when
\* getState is deuce, "Advantage <name>" exactly when getState is advantage
\* for that player, "<name> wins" exactly when getState is won by that
\* player, and the progress label otherwise.
C7_ScoreProjectsState ==
    /\ getScore = "Deuce" <=> getState.type = "deuce"
    /\ \A n \in {player1Name, player2Name} :
          /\ getScore = "Advantage " \o n
                <=> (getState.type = "advantage" /\ getState.player = n)
          /\ getScore = n \o " wins"
                <=> (getState.type = "won" /\ getState.player = n)
    /\ getState.type = "progress" => getScore = getState.scoreLabel

\* C7 witness: getScore has returned "P1 wins" in a state getState reports
\* as won by P1.
C7_Witness ==
    /\ call.op = "getScore"
    /\ ret = "P1 wins"
    /\ getState = [type |-> "won", player |-> "P1"]

\* C8: a pointTo on a game that is not won throws nothing, increments the
\* counter of the named player by exactly 1 and leaves the other counter
\* and both names unchanged.
C8_PointToEffect ==
    [][\A player \in Player :
          (~WonCond /\ PointTo(player)) =>
              /\ thrown' = NULL
              /\ p1' = (IF player = 1 THEN p1 + 1 ELSE p1)
              /\ p2' = (IF player = 2 THEN p2 + 1 ELSE p2)
              /\ player1Name' = player1Name
              /\ player2Name' = player2Name]_vars

\* C8 witness: a pointTo to player 2 has succeeded and taken the game from
\* deuce to advantage.
C8_Witness ==
    /\ call = [op |-> "pointTo", player |-> 2]
    /\ thrown = NULL
    /\ p1 = 3
    /\ p2 = 4

\* C9: reset is permitted in every state, the won ones included: it throws
\* nothing, sets both counters to 0 and leaves the names unchanged;
\* afterwards getState is progress with label love-love and a pointTo is
\* accepted.
C9_ResetAlways ==
    /\ [](ENABLED Reset)
    /\ [][Reset =>
             /\ thrown' = NULL
             /\ p1' = 0
             /\ p2' = 0
             /\ player1Name' = player1Name
             /\ player2Name' = player2Name
             /\ getState' = [type |-> "progress", scoreLabel |-> "love-love"]
             /\ ~hasWinner']_vars
    /\ [](call.op = "reset" =>
             \A player \in Player : ENABLED (PointTo(player) /\ thrown' = NULL))

\* C9 witness: reset has just been called, threw nothing and left a game
\* that getState reports as love-love.
C9_Witness ==
    /\ call = [op |-> "reset"]
    /\ thrown = NULL
    /\ p1 = 0
    /\ p2 = 0
    /\ getState = [type |-> "progress", scoreLabel |-> "love-love"]

\* C10 as stated: once the game is won no operation changes either counter.
C10_Original ==
    [][WonCond => (p1' = p1 /\ p2' = p2)]_vars

\* C10 amended: once the game is won no operation other than reset changes
\* either counter, and reset sets both to 0.
C10_FrozenUntilReset ==
    [][WonCond =>
          \/ p1' = p1 /\ p2' = p2
          \/ call'.op = "reset" /\ p1' = 0 /\ p2' = 0]_vars

\* C10 witness: a pointTo to player 1 has just been refused in a game that
\* player 2 has won after deuce.
C10_Witness ==
    /\ call = [op |-> "pointTo", player |-> 1]
    /\ thrown = JsString(GameWonMessage)
    /\ p1 = 3
    /\ p2 = 5

\* C11: both counters are non-negative in every reachable state, and a
\* counter decreases only in a reset step: no pointTo (accepted or refused),
\* getState, getScore or getRawPoints step decreases either counter.
C11_MonotoneUntilReset ==
    /\ [](p1 >= 0 /\ p2 >= 0)
    /\ [][(p1' < p1 \/ p2' < p2) => (Reset /\ call'.op = "reset")]_vars
    /\ [][(PointToAny \/ GetState \/ GetScore \/ GetRawPoints)
             => (p1' >= p1 /\ p2' >= p2)]_vars

\* C11 witness: a point has been awarded to player 2 and a pointTo was then
\* refused, with the counters where the winning point left them.
C11_Witness ==
    /\ call.op = "pointTo"
    /\ thrown = JsString(GameWonMessage)
    /\ p1 = 2
    /\ p2 = 4

\* The methods that only read the game.
ReadOps == {"getState", "getScore", "getRawPoints"}

\* C12: getState, getScore and getRawPoints can be called in every state,
\* the won ones included, throw nothing and change neither the counters nor
\* the names; the same method called twice in a row returns equal values.
C12_ReadsAreTotalAndPure ==
    /\ [](ENABLED GetState /\ ENABLED GetScore /\ ENABLED GetRawPoints)
    /\ [][(GetState \/ GetScore \/ GetRawPoints) =>
             /\ thrown' = NULL
             /\ UNCHANGED <<p1, p2, player1Name, player2Name>>]_vars
    /\ [][(call.op \in ReadOps /\ call'.op = call.op) => ret' = ret]_vars
    /\ [](call.op = "getState" => ret = getState)
    /\ [](call.op = "getScore" => ret = getScore)
    /\ [](call.op = "getRawPoints" => ret = getRawPoints)

\* C12 witness: getState has been called on a won game and returned won
\* without throwing.
C12_Witness ==
    /\ call.op = "getState"
    /\ thrown = NULL
    /\ ret = [type |-> "won", player |-> "P2"]
    /\ p1 = 1
    /\ p2 = 4

\* The name of a player.
NameOf(player) == IF player = 1 THEN player1Name ELSE player2Name

\* C13 as stated: a point to player X at deuce leads to advantage X; at
\* advantage X a point to the opponent leads back to deuce and a point to X
\* leads to won by X; no single point leads from deuce to won.  The states
\* are those getState returns.
C13_DeuceAdvantageTransitions ==
    [][\A player \in Player :
          PointTo(player) =>
             LET leader == IF p1 > p2 THEN 1 ELSE 2
             IN  /\ getState.type = "deuce" =>
                       /\ getState' = [type |-> "advantage",
                                       player |-> NameOf(player)]
                       /\ getState'.type # "won"
                 /\ (getState.type = "advantage" /\ player # leader) =>
                       getState' = [type |-> "deuce"]
                 /\ (getState.type = "advantage" /\ player = leader) =>
                       getState' = [type |-> "won",
                                    player |-> NameOf(player)]]_vars

\* C15 as stated: when both counters are at least 3 and the game is not won
\* the gap is 0 or 1, and getState never falls through to the progress
\* branch with both counters at least 3.
C15_NoFallThrough ==
    /\ (BothAtLeast3 /\ ~WonCond) => Abs(p1 - p2) <= 1
    /\ BothAtLeast3 => getState.type # "progress"

\* C20: in every state reachable through pointTo and reset, a won game has
\* either the winner at exactly 4 points and the loser at most 2, or the
\* winner exactly 2 points ahead of a loser with at least 3; the counters
\* never differ by more than 4, and no state has a counter of 5 or more and
\* a gap of 3 or more.
C20_WonShape ==
    /\ WonCond =>
          \/ Max(p1, p2) = 4 /\ Min(p1, p2) <= 2
          \/ Abs(p1 - p2) = 2 /\ Min(p1, p2) >= 3
    /\ Abs(p1 - p2) <= 4
    /\ ~(Max(p1, p2) >= 5 /\ Abs(p1 - p2) >= 3)

\* C20 witness: a game won after two deuces, the winner 2 points ahead, in
\* which a further pointTo has been refused.
C20_Witness ==
    /\ call.op = "pointTo"
    /\ thrown = JsString(GameWonMessage)
    /\ p1 = 6
    /\ p2 = 4

\* C14: pointTo is refused only in won states, and from every reachable
\* state that is not won, consecutive points to one player are all accepted
\* until the game is won for that player, which it is after at most 5 of
\* them; from 0-0 it is won after exactly 4, and the fifth call is refused.
C14_WonWithinFive ==
    /\ [][(PointToAny /\ thrown' # NULL) => WonCond]_vars
    /\ []((streak # NoStreak /\ ~WonCond) =>
             /\ streak.calls < 5
             /\ ENABLED (StreakPoint /\ thrown' = NULL))
    /\ []((streak # NoStreak /\ WonCond /\ <<p1, p2>> # streak.from) =>
             /\ streak.player = (IF p1 > p2 THEN 1 ELSE 2)
             /\ streak.calls >= 1)
    /\ []((streak # NoStreak /\ streak.from = <<0, 0>>) =>
             /\ streak.calls < 4 => ~WonCond
             /\ streak.calls >= 4 =>
                    WonCond /\ Max(p1, p2) = 4 /\ Min(p1, p2) = 0
             /\ streak.calls = 5 => thrown = JsString(GameWonMessage))

\* C14 witness: five consecutive points to player 1 from 0-3 have all been
\* accepted and the fifth has won the game for player 1.
C14_Witness ==
    /\ streak = [player |-> 1, from |-> <<0, 3>>, calls |-> 5]
    /\ thrown = NULL
    /\ p1 = 5
    /\ p2 = 3
    /\ WonCond

\* C16: with several callers queueing pointTo callbacks against one game,
\* run in any order, a callback that runs once the game is won is refused
\* and changes no counter, also when it was queued before the win; so the
\* counters never pass the state in which the game was first won.
C16_CheckAndIncrementAtomic ==
    /\ [][\A c \in Callers :
             (WonCond /\ Run(c)) =>
                 /\ thrown' = JsString(GameWonMessage)
                 /\ p1' = p1
                 /\ p2' = p2]_vars
    /\ [](WonCond =>
             \/ Max(p1, p2) = 4 /\ Min(p1, p2) <= 2
             \/ Abs(p1 - p2) = 2 /\ Min(p1, p2) >= 3)

\* C16 witness: a callback queued before the game was won has run after
\* another caller's callback won the game, and was refused.
C16_Witness ==
    /\ WonCond
    /\ ran # NoCallback
    /\ ~ran.issuedWon
    /\ call.op = "pointTo"
    /\ thrown = JsString(GameWonMessage)

\* The screen shows what showScore logged.
OnScoreScreen == printed # <<>> /\ printed[1] = "\n" \o DISPLAY.TITLE

\* The lines on the screen.
PrintedLines == {printed[i] : i \in DOMAIN printed}

\* C17 as stated: whenever showScore has shown the score of a game at deuce
\* it has logged the DEUCE message, of a game at advantage the ADVANTAGE
\* message, and of a won game the Game Over message.
C17_ShowsSpecialStates ==
    OnScoreScreen =>
        /\ getState.type = "deuce" =>
              DISPLAY.STATES.DEUCE \in PrintedLines
        /\ getState.type = "advantage" =>
              DISPLAY.STATES.ADVANTAGE \in PrintedLines
        /\ getState.type = "won" =>
              ("\n" \o DISPLAY.STATES.GAME_OVER) \in PrintedLines

\* The game is won and the interface closed, or the question is asked again.
PromptsAgainUnlessWon ==
    \/ rl' = "question" /\ ~Includes(getScore', "wins")
    \/ rl' = "closed" /\ Includes(getScore', "wins")

\* C18 as stated: after each answer other than q (in either case) the
\* console prompts again unless the game is won; an answer other than "1"
\* or "2" changes no game state; an error thrown by pointTo does not end the
\* loop; once the score is a win the interface is closed, and once it is
\* closed pointTo is never called again.
C18_ConsoleLoop ==
    /\ [][\A answer \in Answers :
             Answer(answer) =>
                 /\ ToLowerCase(answer) = "q" => rl' = "closed"
                 /\ ToLowerCase(answer) # "q" => PromptsAgainUnlessWon
                 /\ answer \notin {"1", "2"} =>
                        UNCHANGED <<p1, p2, player1Name, player2Name>>
                 /\ (thrown' # NULL) => PromptsAgainUnlessWon]_vars
    /\ []((rl # "created" /\ Includes(getScore, "wins")) => rl = "closed")
    /\ [][rl = "closed" => UNCHANGED gameVars]_vars

\* C19: in the useTennisGame hook the score held in state equals getScore()
\* of the wrapped game after every pointTo and reset callback, a pointTo
\* that throws because the game is won included, so the displayed score
\* never diverges from the counters of the game.
C19_HookScoreInSync ==
    /\ [](score = getScore)
    /\ [][\A p \in Player :
             (HookPointTo(p) \/ HookReset) => score' = getScore']_vars

\* A pointTo callback has thrown in a won game and the hook still shows
\* the winner.
C19_Witness ==
    /\ call = [op |-> "pointTo", player |-> 2]
    /\ thrown = JsString(GameWonMessage)
    /\ p1 = 4 /\ p2 = 2
    /\ score = "P1 wins"

====
